---- MODULE Spec2Model ----
(***************************************************************************)
(* Model of the finite state machine designer: the Graph Store of fsm.py   *)
(* (FiniteStateMachine, State, Transition) and the simulation engine of    *)
(* export_utils.py (FSMMatplotlibVisualizer.create_animation_frames and    *)
(* _get_epsilon_closure), with the export worker and the frame player of   *)
(* fsm_gui.py.                                                             *)
(*                                                                         *)
(* The specifications share the variables:                                 *)
(*   SpecStore     the Graph Store driven through the FiniteStateMachine   *)
(*                 API with arbitrary arguments (absent names included);   *)
(*   SpecEdit      the same, with the removals of the main window          *)
(*                 (fsm_gui.py: remove_state, remove_transition);          *)
(*   SpecRoundTrip additions recorded in a journal, then undone by the     *)
(*                 removals, newest first;                                 *)
(*   SpecQuery     a store built by the same calls, queried by validate    *)
(*                 and get_adjacency_matrix;                               *)
(*   SpecTable     the same with three labels, queried by                  *)
(*                 get_transition_table;                                   *)
(*   SpecSim       an automaton built the way the main window's dialogs    *)
(*                 build it (endpoints picked among existing states), then *)
(*                 one run of create_animation_frames on it;               *)
(*   SpecExport    the same run made by the worker thread of               *)
(*                 export_animation, while the main window removes states  *)
(*                 and transitions;                                        *)
(*   SpecPlayer    the same run made by start_animation, then the buttons  *)
(*                 and the timer of the frame player;                      *)
(*   SpecClosure   an automaton built the same way, then one call of       *)
(*                 _get_epsilon_closure on a list of its states;           *)
(*   SpecClosureTwice  SpecClosure, then a second call on the result;      *)
(*   SpecReach     an automaton built the same way, then one call of       *)
(*                 _get_reachable_states;                                  *)
(*   SpecScenario  the automaton main.py builds (menu item 6), then one    *)
(*                 run of create_animation_frames on it.                   *)
(***************************************************************************)
EXTENDS Integers, Sequences, FiniteSets, TLC

VARIABLES
    fsm,              \* the FiniteStateMachine object
    last,             \* the last direct call of the FiniteStateMachine API and
                      \* the exception it raised; in SpecPlayer the handler
                      \* of the frame player that ran last
    pc,               \* position of create_animation_frames, or "called" after
                      \* a call of _get_epsilon_closure or _get_reachable_states
                      \* ("closed" after a second call of the former), or
                      \* "undo" while the journal is being undone
    input_sequence,   \* argument of create_animation_frames: the symbols the
                      \* loop has reached so far (the rest of the argument is
                      \* chosen when the loop reaches it)
    step,             \* loop index of create_animation_frames
    current_states,   \* local list current_states, as the set of its elements
                      \* (it is rebuilt by list(set) and holds no duplicates)
    frames,           \* local list frames (the returned value once pc = "done")
    closure_run,      \* the last call of _get_epsilon_closure: its argument
                      \* states and what it returned
    returned,         \* what the last call of validate, _get_reachable_states,
                      \* get_adjacency_matrix or get_transition_table returned
                      \* (NoCall once the store has changed), or the second
                      \* call of _get_epsilon_closure with its argument
    journal,          \* the successful add_state and add_transition calls that
                      \* have not been undone, oldest first
    animation_frames, \* FSMMainWindow.animation_frames: the frame list of the
                      \* frame player
    current_frame,    \* FSMMainWindow.current_frame: the index of the frame
                      \* shown, counted from 0
    timer_active      \* FSMMainWindow.animation_timer.isActive()

\* the frame player of the main window
player == <<animation_frames, current_frame, timer_active>>

vars == <<fsm, last, pc, input_sequence, step, current_states, frames, closure_run,
          returned, journal, player>>

(***************************************************************************)
(* Bounds                                                                  *)
(***************************************************************************)
MaxTrans == 2         \* transitions added in SpecSim
MaxInput == 2         \* length of the input sequence in SpecSim
MaxPlayerTrans == 1   \* transitions added in SpecPlayer
MaxPlayerInput == 1   \* length of the input sequence in SpecPlayer
MaxStoreTrans == 2    \* add_transition calls that append in SpecStore
MaxClosureTrans == 2  \* transitions added in SpecClosure
MaxSeed == 2          \* length of the list passed to _get_epsilon_closure

(***************************************************************************)
(* Values                                                                  *)
(***************************************************************************)
EPSILON == "epsilon"
None == "None"

\* the state names entered, in the order SpecSim and SpecClosure enter them,
\* and the names SpecStore passes to the API
NameOrder == <<"q0", "q1">>
ClosureNameOrder == <<"q0", "q1", "q2">>
StoreNames == {"q0", "q1"}
TransSymbols == {"a", EPSILON}
InputSymbols == {"a", EPSILON, "x"}

Range(s) == {s[i] : i \in DOMAIN s}

RECURSIVE SeqsUpTo(_, _)
SeqsUpTo(S, n) ==
    IF n = 0 THEN {<<>>}
    ELSE LET shorter == SeqsUpTo(S, n - 1)
         IN  shorter \cup {Append(s, x) : s \in {t \in shorter : Len(t) = n - 1}, x \in S}

\* list(set(...)): the iteration order of a Python set of strings is not
\* fixed, so every enumeration of the set without repetition is possible
ListOfSet(S) ==
    {s \in [1..Cardinality(S) -> S] : Range(s) = S}

(***************************************************************************)
(* fsm.py: Transition, State, FiniteStateMachine                           *)
(***************************************************************************)
Transition(from_state, to_state, symbol) ==
    [from_state |-> from_state, to_state |-> to_state, symbol |-> symbol]

State(name, is_start, is_final) ==
    [name |-> name, is_start |-> is_start, is_final |-> is_final,
     in_transitions |-> <<>>, out_transitions |-> <<>>]

\* names is the key order of the dict self.states, states its content
FiniteStateMachine ==
    [names |-> <<>>, states |-> [n \in {} |-> State(n, FALSE, FALSE)],
     alphabet |-> {}, start_state |-> None]

Has(f, name) == name \in DOMAIN f.states

Call(op, args, error) == [op |-> op, args |-> args, error |-> error]

\* no query has been called on the store as it is
NoCall == [op |-> "none"]

\* FiniteStateMachine.add_state: the store after the call and the exception
add_state(f, name, is_start, is_final) ==
    IF Has(f, name)
    THEN [fsm |-> f, error |-> "ValueError"]
    ELSE [fsm |-> [f EXCEPT
                     !.names = Append(f.names, name),
                     !.states = (name :> State(name, is_start, is_final)) @@ f.states,
                     !.start_state = IF is_start THEN name ELSE f.start_state],
          error |-> "none"]

\* State.add_transition
StateAddTransition(st, transition, is_outgoing) ==
    IF is_outgoing
    THEN [st EXCEPT !.out_transitions = Append(st.out_transitions, transition)]
    ELSE [st EXCEPT !.in_transitions = Append(st.in_transitions, transition)]

\* add_transition with lines 165-167 left out: the alphabet is not updated
add_transition_NoAlphabet(f, from_name, to_name, symbol) ==
    LET transition == Transition(from_name, to_name, symbol)
    IN  IF ~Has(f, from_name)
        THEN [fsm |-> f, error |-> "KeyError"]
        ELSE LET f1 == [f EXCEPT !.states[from_name] =
                            StateAddTransition(f.states[from_name], transition, TRUE)]
             IN  IF ~Has(f1, to_name)
                 THEN [fsm |-> f1, error |-> "KeyError"]
                 ELSE [fsm |-> [f1 EXCEPT
                                  !.states[to_name] =
                                      StateAddTransition(f1.states[to_name], transition, FALSE)],
                       error |-> "none"]

\* FiniteStateMachine.add_transition: self.states[from_name] and
\* self.states[to_name] raise KeyError on an absent name, the second one
\* after the outgoing list of from_name has been appended to
add_transition(f, from_name, to_name, symbol) ==
    LET transition == Transition(from_name, to_name, symbol)
    IN  IF ~Has(f, from_name)
        THEN [fsm |-> f, error |-> "KeyError"]
        ELSE LET f1 == [f EXCEPT !.states[from_name] =
                            StateAddTransition(f.states[from_name], transition, TRUE)]
             IN  IF ~Has(f1, to_name)
                 THEN [fsm |-> f1, error |-> "KeyError"]
                 ELSE [fsm |-> [f1 EXCEPT
                                  !.states[to_name] =
                                      StateAddTransition(f1.states[to_name], transition, FALSE),
                                  !.alphabet = IF symbol # EPSILON
                                               THEN f1.alphabet \cup {symbol}
                                               ELSE f1.alphabet],
                       error |-> "none"]

\* FiniteStateMachine.set_start_state
set_start_state(f, state_name) ==
    IF ~Has(f, state_name)
    THEN [fsm |-> f, error |-> "ValueError"]
    ELSE LET f1 == IF f.start_state # None
                   THEN [f EXCEPT !.states[f.start_state].is_start = FALSE]
                   ELSE f
         IN  [fsm |-> [f1 EXCEPT !.start_state = state_name,
                                 !.states[state_name].is_start = TRUE],
              error |-> "none"]

\* State.get_transitions_by_symbol on the list out_transitions
RECURSIVE get_transitions_by_symbol(_, _)
get_transitions_by_symbol(ts, symbol) ==
    IF ts = <<>> THEN <<>>
    ELSE (IF Head(ts).symbol = symbol THEN <<Head(ts).to_state>> ELSE <<>>)
             \o get_transitions_by_symbol(Tail(ts), symbol)

\* the for loop pushing the destinations of the labeled transitions only
RECURSIVE ReachableScan_NoEpsilon(_, _, _)
ReachableScan_NoEpsilon(ts, reachable, stack) ==
    IF ts = <<>> THEN stack
    ELSE ReachableScan_NoEpsilon(Tail(ts), reachable,
                       IF Head(ts).to_state \notin reachable /\ Head(ts).symbol # EPSILON
                       THEN Append(stack, Head(ts).to_state) ELSE stack)

\* the for loop of _get_reachable_states over current_state.out_transitions
RECURSIVE ReachableScan(_, _, _)
ReachableScan(ts, reachable, stack) ==
    IF ts = <<>> THEN stack
    ELSE ReachableScan(Tail(ts), reachable,
                       IF Head(ts).to_state \notin reachable
                       THEN Append(stack, Head(ts).to_state) ELSE stack)

\* the while loop of _get_reachable_states: stack.pop() takes the last
\* element; self.states[current_name] raises KeyError on an absent name
RECURSIVE ReachableLoop(_, _, _)
ReachableLoop(f, reachable, stack) ==
    IF stack = <<>> THEN [value |-> reachable, raised |-> "none"]
    ELSE LET current_name == stack[Len(stack)]
             rest == SubSeq(stack, 1, Len(stack) - 1)
         IN  IF current_name \in reachable
             THEN ReachableLoop(f, reachable, rest)
             ELSE IF ~Has(f, current_name)
                  THEN [value |-> reachable \cup {current_name}, raised |-> "KeyError"]
                  ELSE ReachableLoop(f, reachable \cup {current_name},
                           ReachableScan(f.states[current_name].out_transitions,
                                         reachable \cup {current_name}, rest))

\* FiniteStateMachine._get_reachable_states
_get_reachable_states(f) ==
    IF f.start_state = None
    THEN [value |-> {}, raised |-> "none"]
    ELSE ReachableLoop(f, {}, <<f.start_state>>)

\* the messages of validate, as the kind of message and the state it names
Message(kind, state_name) == <<kind, state_name>>
IsError(message) == message[1] \in {"no_states", "no_start_state"}

\* the loop with the dead-end warning given to final states too
RECURSIVE StateWarnings_FinalToo(_, _)
StateWarnings_FinalToo(f, names) ==
    IF names = <<>> THEN <<>>
    ELSE LET state == f.states[Head(names)]
         IN  (IF state.in_transitions = <<>> /\ state.out_transitions = <<>>
              THEN <<Message("isolated", Head(names))>>
              ELSE IF state.out_transitions = <<>>
                   THEN <<Message("dead_end", Head(names))>>
                   ELSE <<>>)
                 \o StateWarnings_FinalToo(f, Tail(names))

\* the loop of validate over self.states.items(): the warnings it appends
RECURSIVE StateWarnings(_, _)
StateWarnings(f, names) ==
    IF names = <<>> THEN <<>>
    ELSE LET state == f.states[Head(names)]
         IN  (IF state.in_transitions = <<>> /\ state.out_transitions = <<>>
              THEN <<Message("isolated", Head(names))>>
              ELSE IF state.out_transitions = <<>> /\ ~state.is_final
                   THEN <<Message("dead_end", Head(names))>>
                   ELSE <<>>)
                 \o StateWarnings(f, Tail(names))

\* FiniteStateMachine.validate: every value the call can return. The loop
\* over the set unreachable meets its elements in an order that is not fixed;
\* an exception of _get_reachable_states is not caught
validate(f) ==
    LET errors == (IF DOMAIN f.states = {} THEN <<Message("no_states", None)>> ELSE <<>>)
                      \o (IF f.start_state = None
                          THEN <<Message("no_start_state", None)>> ELSE <<>>)
        warnings == StateWarnings(f, f.names)
        reach == _get_reachable_states(f)
    IN  IF f.start_state = None
        THEN {[is_valid |-> errors = <<>>, messages |-> errors \o warnings,
               raised |-> "none"]}
        ELSE IF reach.raised # "none"
             THEN {[is_valid |-> FALSE, messages |-> <<>>, raised |-> reach.raised]}
             ELSE {[is_valid |-> errors = <<>>,
                    messages |-> errors \o warnings
                                     \o [i \in DOMAIN order |-> Message("unreachable", order[i])],
                    raised |-> "none"] :
                       order \in ListOfSet(DOMAIN f.states \ reach.value)}

\* state_names.index(name): the first position of name, 0 if there is none
\* (index raises ValueError then)
Index(state_names, name) ==
    IF name \in Range(state_names)
    THEN CHOOSE i \in DOMAIN state_names :
             /\ state_names[i] = name
             /\ \A j \in 1..(i - 1) : state_names[j] # name
    ELSE 0

\* the inner loop of get_adjacency_matrix on the transitions ts of row i
RECURSIVE MatrixScan(_, _, _, _)
MatrixScan(state_names, ts, i, acc) ==
    IF ts = <<>> \/ acc.raised # "none" THEN acc
    ELSE LET j == Index(state_names, Head(ts).to_state)
         IN  IF j = 0
             THEN [acc EXCEPT !.raised = "ValueError"]
             ELSE MatrixScan(state_names, Tail(ts), i,
                             [acc EXCEPT !.matrix[i][j] = 1])

\* the outer loop of get_adjacency_matrix over enumerate(state_names)
RECURSIVE MatrixRows(_, _, _, _)
MatrixRows(f, state_names, i, acc) ==
    IF i > Len(state_names) \/ acc.raised # "none" THEN acc
    ELSE MatrixRows(f, state_names, i + 1,
                    MatrixScan(state_names, f.states[state_names[i]].out_transitions, i, acc))

\* FiniteStateMachine.get_adjacency_matrix
get_adjacency_matrix(f) ==
    LET state_names == f.names
        n == Len(state_names)
        zeros == [i \in 1..n |-> [j \in 1..n |-> 0]]
    IN  MatrixRows(f, state_names, 1,
                   [matrix |-> zeros, state_names |-> state_names, raised |-> "none"])

\* the strings used as symbols, in the order Python compares strings
Collation == <<"a", "b", "epsilon", "x", "z">>

\* sorted(S) of a set of symbols
sorted(S) == SelectSeq(Collation, LAMBDA symbol : symbol \in S)

\* the table with the epsilon label put after the sorted alphabet
get_transition_table_EpsilonLast(f) ==
    LET has_epsilon == \E name \in DOMAIN f.states :
                           \E i \in DOMAIN f.states[name].out_transitions :
                               f.states[name].out_transitions[i].symbol = EPSILON
        sorted_alphabet == sorted(f.alphabet) \o (IF has_epsilon THEN <<EPSILON>> ELSE <<>>)
    IN  [table |-> [name \in DOMAIN f.states |->
                       [symbol \in Range(sorted_alphabet) |->
                           get_transitions_by_symbol(f.states[name].out_transitions, symbol)]],
         sorted_alphabet |-> sorted_alphabet]

\* FiniteStateMachine.get_transition_table
get_transition_table(f) ==
    LET has_epsilon == \E name \in DOMAIN f.states :
                           \E i \in DOMAIN f.states[name].out_transitions :
                               f.states[name].out_transitions[i].symbol = EPSILON
        sorted_alphabet == (IF has_epsilon THEN <<EPSILON>> ELSE <<>>) \o sorted(f.alphabet)
    IN  [table |-> [name \in DOMAIN f.states |->
                       [symbol \in Range(sorted_alphabet) |->
                           get_transitions_by_symbol(f.states[name].out_transitions, symbol)]],
         sorted_alphabet |-> sorted_alphabet]

(***************************************************************************)
(* fsm_gui.py: the removal of a state and of a transition in               *)
(* FSMMainWindow.remove_state and FSMMainWindow.remove_transition          *)
(***************************************************************************)
\* the list comprehensions testing the destination only
NotIncident_ToOnly(ts, state_name) ==
    SelectSeq(ts, LAMBDA t : t.to_state # state_name)

\* the list comprehensions of remove_state on one list of transitions
NotIncident(ts, state_name) ==
    SelectSeq(ts, LAMBDA t : t.to_state # state_name /\ t.from_state # state_name)

\* the removal without lines 872-873: the start reference is kept
remove_state_KeepStart(f, state_name) ==
    IF ~Has(f, state_name)
    THEN f
    ELSE [names |-> SelectSeq(f.names, LAMBDA n : n # state_name),
          states |-> [n \in DOMAIN f.states \ {state_name} |->
                         [f.states[n] EXCEPT
                            !.out_transitions = NotIncident(@, state_name),
                            !.in_transitions = NotIncident(@, state_name)]],
          alphabet |-> f.alphabet,
          start_state |-> f.start_state]

\* FSMMainWindow.remove_state once the removal is confirmed (lines 869-884)
remove_state(f, state_name) ==
    IF ~Has(f, state_name)
    THEN f
    ELSE [names |-> SelectSeq(f.names, LAMBDA n : n # state_name),
          states |-> [n \in DOMAIN f.states \ {state_name} |->
                         [f.states[n] EXCEPT
                            !.out_transitions = NotIncident(@, state_name),
                            !.in_transitions = NotIncident(@, state_name)]],
          alphabet |-> f.alphabet,
          start_state |-> IF f.start_state # None /\ f.start_state = state_name
                          THEN None ELSE f.start_state]

\* the first position of the triple in the list ts, 0 if there is none
FirstMatch(ts, from_state, to_state, symbol) ==
    LET Matches(i) == /\ ts[i].from_state = from_state
                      /\ ts[i].to_state = to_state
                      /\ ts[i].symbol = symbol
    IN  IF \E i \in DOMAIN ts : Matches(i)
        THEN CHOOSE i \in DOMAIN ts : Matches(i) /\ \A j \in 1..(i - 1) : ~Matches(j)
        ELSE 0

\* list.pop(i), with the positions counted from 1
Pop(ts, i) == SubSeq(ts, 1, i - 1) \o SubSeq(ts, i + 1, Len(ts))

\* the search that leaves the incoming list of to_state as it is
RECURSIVE RemoveSearch_OutOnly(_, _, _, _, _)
RemoveSearch_OutOnly(f, names, from_state, to_state, symbol) ==
    IF names = <<>> THEN [fsm |-> f, error |-> "not_found"]
    ELSE LET i == FirstMatch(f.states[Head(names)].out_transitions,
                             from_state, to_state, symbol)
             f1 == [f EXCEPT !.states[Head(names)].out_transitions = Pop(@, i)]
         IN  IF i = 0
             THEN RemoveSearch_OutOnly(f, Tail(names), from_state, to_state, symbol)
             ELSE IF ~Has(f1, to_state)
                  THEN [fsm |-> f1, error |-> "KeyError"]
                  ELSE [fsm |-> f1, error |-> "none"]

\* the search of remove_transition (lines 976-997) over the states names:
\* the first match is popped from the outgoing list, self.fsm.states[to_state]
\* raises KeyError on an absent name, then the first match of the incoming
\* list is popped; "not_found" is the warning of line 997
RECURSIVE RemoveSearch(_, _, _, _, _)
RemoveSearch(f, names, from_state, to_state, symbol) ==
    IF names = <<>> THEN [fsm |-> f, error |-> "not_found"]
    ELSE LET i == FirstMatch(f.states[Head(names)].out_transitions,
                             from_state, to_state, symbol)
             f1 == [f EXCEPT !.states[Head(names)].out_transitions = Pop(@, i)]
         IN  IF i = 0
             THEN RemoveSearch(f, Tail(names), from_state, to_state, symbol)
             ELSE IF ~Has(f1, to_state)
                  THEN [fsm |-> f1, error |-> "KeyError"]
                  ELSE LET j == FirstMatch(f1.states[to_state].in_transitions,
                                           from_state, to_state, symbol)
                       IN  [fsm |-> IF j = 0 THEN f1
                                    ELSE [f1 EXCEPT !.states[to_state].in_transitions =
                                                        Pop(@, j)],
                            error |-> "none"]

\* line 780 of update_transitions_list: the symbol as the list shows it
SymbolDisplay(symbol) == IF symbol = EPSILON THEN "eps_sign" ELSE symbol

\* FSMMainWindow.remove_transition on the parts of the selected item
\* (lines 967-997): the sign of epsilon is turned back into the label
remove_transition(f, from_state, symbol_shown, to_state) ==
    LET symbol == IF symbol_shown = "eps_sign" THEN EPSILON ELSE symbol_shown
    IN  RemoveSearch(f, f.names, from_state, to_state, symbol)

\* number of entries of all outgoing lists
TotalOut(f) ==
    LET RECURSIVE Sum(_)
        Sum(S) == IF S = {} THEN 0
                  ELSE LET n == CHOOSE n \in S : TRUE
                       IN  Len(f.states[n].out_transitions) + Sum(S \ {n})
    IN  Sum(DOMAIN f.states)

simIdle == <<pc, input_sequence, step, current_states, frames, closure_run, returned, journal,
             player>>
storeIdle == <<pc, input_sequence, step, current_states, frames, closure_run, journal,
               player>>

Init ==
    /\ fsm = FiniteStateMachine
    /\ last = Call("none", <<>>, "none")
    /\ pc = "idle"
    /\ input_sequence = <<>>
    /\ step = 0
    /\ current_states = {}
    /\ frames = <<>>
    /\ closure_run = [states |-> <<>>, closure |-> {}, pushed |-> <<>>, raised |-> FALSE]
    /\ returned = NoCall
    /\ journal = <<>>
    /\ animation_frames = <<>>
    /\ current_frame = 0
    /\ timer_active = FALSE

(***************************************************************************)
(* SpecStore: calls of the FiniteStateMachine API                          *)
(***************************************************************************)
\* a call of add_state with is_final among finals
CallAddState(finals) ==
    /\ pc = "idle"
    /\ \E name \in StoreNames, is_start \in BOOLEAN, is_final \in finals :
          LET r == add_state(fsm, name, is_start, is_final)
          IN  /\ fsm' = r.fsm
              /\ last' = Call("add_state", <<name, is_start, is_final>>, r.error)
    /\ returned' = NoCall
    /\ UNCHANGED storeIdle

AddState == CallAddState(BOOLEAN)

AddTransition ==
    /\ pc = "idle"
    /\ \E from_name \in StoreNames, to_name \in StoreNames, symbol \in TransSymbols :
          LET r == add_transition(fsm, from_name, to_name, symbol)
          IN  /\ TotalOut(r.fsm) <= MaxStoreTrans
              /\ fsm' = r.fsm
              /\ last' = Call("add_transition", <<from_name, to_name, symbol>>, r.error)
    /\ returned' = NoCall
    /\ UNCHANGED storeIdle

SetStartState ==
    /\ pc = "idle"
    /\ \E state_name \in StoreNames :
          LET r == set_start_state(fsm, state_name)
          IN  /\ fsm' = r.fsm
              /\ last' = Call("set_start_state", <<state_name>>, r.error)
    /\ returned' = NoCall
    /\ UNCHANGED storeIdle

NextStore == AddState \/ AddTransition \/ SetStartState

SpecStore == Init /\ [][NextStore]_vars

(***************************************************************************)
(* SpecEdit: the calls of SpecStore (states added as non-final ones) and   *)
(* the two removals of the main window, with arbitrary arguments           *)
(***************************************************************************)
EditAddState == CallAddState({FALSE})

RemoveState ==
    /\ pc = "idle"
    /\ \E state_name \in StoreNames :
          /\ fsm' = remove_state(fsm, state_name)
          /\ last' = Call("remove_state", <<state_name>>, "none")
    /\ returned' = NoCall
    /\ UNCHANGED storeIdle

RemoveTransition ==
    /\ pc = "idle"
    /\ \E from_state \in StoreNames, to_state \in StoreNames, symbol \in TransSymbols :
          LET r == remove_transition(fsm, from_state, SymbolDisplay(symbol), to_state)
          IN  /\ fsm' = r.fsm
              /\ last' = Call("remove_transition", <<from_state, to_state, symbol>>, r.error)
    /\ returned' = NoCall
    /\ UNCHANGED storeIdle

NextEdit ==
    \/ EditAddState \/ AddTransition \/ SetStartState
    \/ RemoveState \/ RemoveTransition

SpecEdit == Init /\ [][NextEdit]_vars

(***************************************************************************)
(* SpecRoundTrip: successful add_state and add_transition calls on the     *)
(* empty store, then the inverse calls: remove_transition for each added   *)
(* transition, the last one first, then remove_state for each added state, *)
(* the last one first                                                      *)
(***************************************************************************)
MaxRoundTrip == 3     \* transitions added in SpecRoundTrip

JournalAddState ==
    /\ pc = "idle"
    /\ \E name \in StoreNames \ DOMAIN fsm.states, is_start \in BOOLEAN :
          LET r == add_state(fsm, name, is_start, FALSE)
          IN  /\ fsm' = r.fsm
              /\ last' = Call("add_state", <<name, is_start, FALSE>>, r.error)
    /\ journal' = Append(journal, last')
    /\ UNCHANGED <<pc, input_sequence, step, current_states, frames, closure_run, returned,
                   player>>

JournalAddTransition ==
    /\ pc = "idle"
    /\ TotalOut(fsm) < MaxRoundTrip
    /\ \E from_name \in DOMAIN fsm.states, to_name \in DOMAIN fsm.states,
          symbol \in TransSymbols :
          LET r == add_transition(fsm, from_name, to_name, symbol)
          IN  /\ fsm' = r.fsm
              /\ last' = Call("add_transition", <<from_name, to_name, symbol>>, r.error)
    /\ journal' = Append(journal, last')
    /\ UNCHANGED <<pc, input_sequence, step, current_states, frames, closure_run, returned,
                   player>>

\* the positions of the add_transition calls in the journal
TransitionEntries == {i \in DOMAIN journal : journal[i].op = "add_transition"}

\* the inverse of the last add_transition call that is not undone yet
UndoTransition ==
    /\ pc \in {"idle", "undo"}
    /\ TransitionEntries # {}
    /\ LET k == CHOOSE i \in TransitionEntries : \A j \in TransitionEntries : j <= i
           args == journal[k].args
           r == remove_transition(fsm, args[1], SymbolDisplay(args[3]), args[2])
       IN  /\ fsm' = r.fsm
           /\ last' = Call("remove_transition", args, r.error)
           /\ journal' = SubSeq(journal, 1, k - 1) \o SubSeq(journal, k + 1, Len(journal))
    /\ pc' = "undo"
    /\ UNCHANGED <<input_sequence, step, current_states, frames, closure_run, returned, player>>

\* the inverse of the last add_state call, once every transition is removed
UndoState ==
    /\ pc \in {"idle", "undo"}
    /\ TransitionEntries = {}
    /\ journal # <<>>
    /\ LET args == journal[Len(journal)].args
       IN  /\ fsm' = remove_state(fsm, args[1])
           /\ last' = Call("remove_state", <<args[1]>>, "none")
    /\ journal' = SubSeq(journal, 1, Len(journal) - 1)
    /\ pc' = "undo"
    /\ UNCHANGED <<input_sequence, step, current_states, frames, closure_run, returned, player>>

NextRoundTrip == JournalAddState \/ JournalAddTransition \/ UndoTransition \/ UndoState

SpecRoundTrip == Init /\ [][NextRoundTrip]_vars

(***************************************************************************)
(* SpecQuery and SpecTable: the store is changed by add_state,             *)
(* add_transition and the two removals, with arbitrary arguments, and      *)
(* queried by validate and get_adjacency_matrix (SpecQuery) or by          *)
(* get_transition_table (SpecTable, with one more label and no start or    *)
(* final state, which the table does not read)                             *)
(***************************************************************************)
MaxQueryTrans == 2    \* entries of the outgoing lists in SpecQuery
MaxTableTrans == 3    \* entries of the outgoing lists in SpecTable
TableSymbols == {"a", "b", EPSILON}

\* a call that changes the store to f
Build(f) ==
    /\ pc = "idle"
    /\ fsm' = f
    /\ returned' = NoCall
    /\ UNCHANGED <<last, storeIdle>>

BuildAddState(flags) ==
    \E name \in StoreNames, is_start \in flags, is_final \in flags :
        Build(add_state(fsm, name, is_start, is_final).fsm)

BuildAddTransition(symbols, max) ==
    \E from_name \in StoreNames, to_name \in StoreNames, symbol \in symbols :
        LET r == add_transition(fsm, from_name, to_name, symbol)
        IN  /\ TotalOut(r.fsm) <= max
            /\ Build(r.fsm)

BuildRemoveState ==
    \E state_name \in StoreNames : Build(remove_state(fsm, state_name))

BuildRemoveTransition(symbols) ==
    \E from_state \in StoreNames, to_state \in StoreNames, symbol \in symbols :
        Build(remove_transition(fsm, from_state, SymbolDisplay(symbol), to_state).fsm)

\* a query: the store is left as it is
Query(op, result) ==
    /\ pc = "idle"
    /\ returned' = [op |-> op, result |-> result]
    /\ UNCHANGED <<fsm, last, storeIdle>>

QueryAddState == BuildAddState(BOOLEAN)

QueryAddTransition == BuildAddTransition(TransSymbols, MaxQueryTrans)

QueryRemoveTransition == BuildRemoveTransition(TransSymbols)

Validate == \E result \in validate(fsm) : Query("validate", result)

GetAdjacencyMatrix == Query("get_adjacency_matrix", get_adjacency_matrix(fsm))

NextQuery ==
    \/ QueryAddState \/ QueryAddTransition \/ BuildRemoveState \/ QueryRemoveTransition
    \/ Validate \/ GetAdjacencyMatrix

SpecQuery == Init /\ [][NextQuery]_vars

TableAddState == BuildAddState({FALSE})

TableAddTransition == BuildAddTransition(TableSymbols, MaxTableTrans)

TableRemoveTransition == BuildRemoveTransition(TableSymbols)

GetTransitionTable == Query("get_transition_table", get_transition_table(fsm))

NextTable ==
    \/ TableAddState \/ TableAddTransition \/ BuildRemoveState \/ TableRemoveTransition
    \/ GetTransitionTable

SpecTable == Init /\ [][NextTable]_vars

(***************************************************************************)
(* export_utils.py: FSMMatplotlibVisualizer._get_epsilon_closure           *)
(***************************************************************************)
\* the for loop without stack.append: destinations are added to the closure
\* but never visited
RECURSIVE ClosureScan_NoPush(_, _, _)
ClosureScan_NoPush(ts, i, acc) ==
    IF i > Len(ts) THEN acc
    ELSE IF ts[i].symbol = EPSILON /\ ts[i].to_state \notin acc.closure
         THEN ClosureScan_NoPush(ts, i + 1,
                  [closure |-> acc.closure \cup {ts[i].to_state},
                   stack |-> acc.stack,
                   pushed |-> acc.pushed])
         ELSE ClosureScan_NoPush(ts, i + 1, acc)

\* the for loop over state.out_transitions: closure and stack after it, and
\* the names it pushed
RECURSIVE ClosureScan(_, _, _)
ClosureScan(ts, i, acc) ==
    IF i > Len(ts) THEN acc
    ELSE IF ts[i].symbol = EPSILON /\ ts[i].to_state \notin acc.closure
         THEN ClosureScan(ts, i + 1,
                  [closure |-> acc.closure \cup {ts[i].to_state},
                   stack |-> Append(acc.stack, ts[i].to_state),
                   pushed |-> Append(acc.pushed, ts[i].to_state)])
         ELSE ClosureScan(ts, i + 1, acc)

\* the while loop: stack.pop() takes the last element; self.fsm.states[current]
\* raises KeyError on a name that is not in the state map
RECURSIVE ClosureLoop(_, _)
ClosureLoop(f, acc) ==
    IF acc.stack = <<>> THEN [closure |-> acc.closure, pushed |-> acc.pushed, raised |-> FALSE]
    ELSE LET current == acc.stack[Len(acc.stack)]
             rest == SubSeq(acc.stack, 1, Len(acc.stack) - 1)
         IN  IF ~Has(f, current)
             THEN [closure |-> acc.closure, pushed |-> acc.pushed, raised |-> TRUE]
             ELSE ClosureLoop(f, ClosureScan(f.states[current].out_transitions, 1,
                                 [closure |-> acc.closure, stack |-> rest,
                                  pushed |-> acc.pushed]))

\* the call returning set(states) without the traversal
EpsilonClosureRun_SeedOnly(f, states) ==
    [closure |-> Range(states), pushed |-> states,
     raised |-> \E name \in Range(states) : ~Has(f, name)]

\* the whole call on the list states: closure = set(states), stack = list(states)
EpsilonClosureRun(f, states) ==
    ClosureLoop(f, [closure |-> Range(states), stack |-> states, pushed |-> states])

_get_epsilon_closure(f, states) == EpsilonClosureRun(f, states).closure

(***************************************************************************)
(* export_utils.py: FSMMatplotlibVisualizer.create_animation_frames        *)
(***************************************************************************)
\* a frame (list(current_states), list(active_transitions), text): the list
\* of states is kept as its set, text as the kind of label and its number
Frame(states, transitions, kind, n) ==
    [states |-> states, transitions |-> transitions, text |-> <<kind, n>>]

Triple(t, symbol) == <<t.from_state, t.to_state, symbol>>

\* the selection without the test transition.symbol == symbol
RECURSIVE SelectBySymbol_Any(_, _, _)
SelectBySymbol_Any(ts, i, symbol) ==
    IF i > Len(ts) THEN <<>>
    ELSE <<ts[i]>> \o SelectBySymbol_Any(ts, i + 1, symbol)

RECURSIVE SelectBySymbol(_, _, _)
SelectBySymbol(ts, i, symbol) ==
    IF i > Len(ts) THEN <<>>
    ELSE IF ts[i].symbol = symbol
         THEN <<ts[i]>> \o SelectBySymbol(ts, i + 1, symbol)
         ELSE SelectBySymbol(ts, i + 1, symbol)

\* the nested loops "for state_name in current_states: for transition in
\* state.out_transitions: if transition.symbol == symbol": the transitions
\* that match, in the order the loops meet them
RECURSIVE CollectTransitions(_, _, _, _)
CollectTransitions(f, cur, i, symbol) ==
    IF i > Len(cur) THEN <<>>
    ELSE SelectBySymbol(f.states[cur[i]].out_transitions, 1, symbol)
             \o CollectTransitions(f, cur, i + 1, symbol)

ToStates(ts) == [i \in DOMAIN ts |-> ts[i].to_state]
Triples(ts, symbol) == [i \in DOMAIN ts |-> Triple(ts[i], symbol)]

\* a lookup self.fsm.states[state_name] of the loops raises KeyError
LookupFails(f, cur) == \E name \in cur : ~Has(f, name)

\* what a part of create_animation_frames leaves behind: the list frames,
\* the list current_states (as a set) and where the function is
Locals(fs, cur, at) == [frames |-> fs, current_states |-> cur, pc |-> at]

\* the initial part with the closure frame appended whether or not the
\* closure differs from the start state
InitialFrames_AlwaysClosureFrame(f) ==
    IF DOMAIN f.states = {} \/ f.start_state = None
    THEN Locals(<<>>, {}, "done")
    ELSE LET cur0 == <<f.start_state>>
             frame0 == Frame(Range(cur0), <<>>, "initial", 0)
             run == EpsilonClosureRun(f, cur0)
         IN  IF run.raised
             THEN Locals(<<frame0>>, Range(cur0), "raised")
             ELSE Locals(<<frame0, Frame(run.closure, <<>>, "initial_closure", 0)>>,
                         run.closure, "loop")

\* the initial part with a guard that tests only the state map
InitialFrames_NoStartCheck(f) ==
    IF DOMAIN f.states = {}
    THEN Locals(<<>>, {}, "done")
    ELSE LET cur0 == <<f.start_state>>
             frame0 == Frame(Range(cur0), <<>>, "initial", 0)
             run == EpsilonClosureRun(f, cur0)
         IN  IF run.raised
             THEN Locals(<<frame0>>, Range(cur0), "raised")
             ELSE IF run.closure # Range(cur0)
                  THEN Locals(<<frame0, Frame(run.closure, <<>>, "initial_closure", 0)>>,
                              run.closure, "loop")
                  ELSE Locals(<<frame0>>, Range(cur0), "loop")

\* lines 322-334: the guard, the initial frame and the initial closure
InitialFrames(f) ==
    IF DOMAIN f.states = {} \/ f.start_state = None
    THEN Locals(<<>>, {}, "done")
    ELSE LET cur0 == <<f.start_state>>
             frame0 == Frame(Range(cur0), <<>>, "initial", 0)
             run == EpsilonClosureRun(f, cur0)
         IN  IF run.raised
             THEN Locals(<<frame0>>, Range(cur0), "raised")
             ELSE IF run.closure # Range(cur0)
                  THEN Locals(<<frame0, Frame(run.closure, <<>>, "initial_closure", 0)>>,
                              run.closure, "loop")
                  ELSE Locals(<<frame0>>, Range(cur0), "loop")

\* the epsilon phase replacing the active set by the epsilon destinations
EpsilonPhase_Replace(f, cur, fs, n) ==
    LET eps == CollectTransitions(f, cur, 1, EPSILON)
    IN  IF eps # <<>>
        THEN [frames |-> Append(fs, Frame(Range(cur), Triples(eps, EPSILON), "epsilon", n)),
              merged |-> Range(ToStates(eps))]
        ELSE [frames |-> fs, merged |-> Range(cur)]

\* lines 341-358: the epsilon phase before a step, on the list cur; merged is
\* the content of list(set(current_states + next_states))
EpsilonPhase(f, cur, fs, n) ==
    LET eps == CollectTransitions(f, cur, 1, EPSILON)
    IN  IF eps # <<>>
        THEN [frames |-> Append(fs, Frame(Range(cur), Triples(eps, EPSILON), "epsilon", n)),
              merged |-> Range(cur \o ToStates(eps))]
        ELSE [frames |-> fs, merged |-> Range(cur)]

\* the symbol phase with a dead end that empties the active set
SymbolPhase_Abort(f, cur, fs, symbol, n) ==
    LET fired == CollectTransitions(f, cur, 1, symbol)
        next_states == ToStates(fired)
        active_transitions == Triples(fired, symbol)
    IN  IF active_transitions # <<>>
        THEN LET run == EpsilonClosureRun(f, next_states)
                 fs1 == Append(fs, Frame(Range(cur), active_transitions, "input", n))
             IN  IF run.raised
                 THEN Locals(fs1, Range(cur), "raised")
                 ELSE Locals(Append(fs1, Frame(run.closure, <<>>, "new_states", n)),
                             run.closure, "loop")
        ELSE Locals(Append(fs, Frame(Range(cur), <<>>, "no_transition", n)),
                    Range(next_states), "loop")

\* the symbol phase merging the new states into the active set
SymbolPhase_Merge(f, cur, fs, symbol, n) ==
    LET fired == CollectTransitions(f, cur, 1, symbol)
        next_states == ToStates(fired)
        active_transitions == Triples(fired, symbol)
    IN  IF active_transitions # <<>>
        THEN LET run == EpsilonClosureRun(f, cur \o next_states)
                 fs1 == Append(fs, Frame(Range(cur), active_transitions, "input", n))
             IN  IF run.raised
                 THEN Locals(fs1, Range(cur), "raised")
                 ELSE Locals(Append(fs1, Frame(run.closure, <<>>, "new_states", n)),
                             run.closure, "loop")
        ELSE Locals(Append(fs, Frame(Range(cur), <<>>, "no_transition", n)),
                    Range(cur), "loop")

\* lines 360-385: the symbol phase of step n on the list cur, after the frames fs
SymbolPhase(f, cur, fs, symbol, n) ==
    LET fired == CollectTransitions(f, cur, 1, symbol)
        next_states == ToStates(fired)
        active_transitions == Triples(fired, symbol)
    IN  IF active_transitions # <<>>
        THEN LET run == EpsilonClosureRun(f, next_states)
                 fs1 == Append(fs, Frame(Range(cur), active_transitions, "input", n))
             IN  IF run.raised
                 THEN Locals(fs1, Range(cur), "raised")
                 ELSE Locals(Append(fs1, Frame(run.closure, <<>>, "new_states", n)),
                             run.closure, "loop")
        ELSE Locals(Append(fs, Frame(Range(cur), <<>>, "no_transition", n)),
                    Range(cur), "loop")

\* the final part with final_info filled for accepting states only
FinalFrame_OnlyAccepting(f, cur, fs, n) ==
    IF LookupFails(f, cur)
    THEN Locals(fs, cur, "raised")
    ELSE Locals(IF \E name \in cur : f.states[name].is_final
                THEN Append(fs, Frame(cur, <<>>, "result", n)) ELSE fs,
                cur, "done")

\* the final part writing its frame over the last frame of the list
FinalFrame_Overwrite(f, cur, fs, n) ==
    IF LookupFails(f, cur)
    THEN Locals(fs, cur, "raised")
    ELSE Locals(IF cur # {} THEN [fs EXCEPT ![Len(fs)] = Frame(cur, <<>>, "result", n)]
                ELSE fs,
                cur, "done")

\* lines 387-400: the final frame, appended only if final_info is not empty
FinalFrame(f, cur, fs, n) ==
    IF LookupFails(f, cur)
    THEN Locals(fs, cur, "raised")
    ELSE Locals(IF cur # {} THEN Append(fs, Frame(cur, <<>>, "result", n)) ELSE fs,
                cur, "done")

SetLocals(r) ==
    /\ frames' = r.frames
    /\ current_states' = r.current_states
    /\ pc' = r.pc

\* the call of create_animation_frames up to the loop
StartFrames(f) ==
    /\ pc = "idle"
    /\ input_sequence' = <<>>
    /\ step' = 0
    /\ SetLocals(InitialFrames(f))

\* one iteration of the loop over input_sequence (lines 336-385), on the next
\* element symbol of the argument; cur is the list current_states and cur1
\* the list list(set(current_states + next_states)) when it is rebuilt
StepFrames(f, symbol) ==
    /\ pc = "loop"
    /\ step = Len(input_sequence)
    /\ step' = step + 1
    /\ input_sequence' = Append(input_sequence, symbol)
    /\ IF LookupFails(f, current_states)
       THEN SetLocals(Locals(frames, current_states, "raised"))
       ELSE \E cur \in ListOfSet(current_states) :
               LET e == EpsilonPhase(f, cur, frames, step)
               IN  IF e.frames # frames
                   THEN \E cur1 \in ListOfSet(e.merged) :
                           IF LookupFails(f, e.merged)
                           THEN SetLocals(Locals(e.frames, e.merged, "raised"))
                           ELSE SetLocals(SymbolPhase(f, cur1, e.frames, symbol, step + 1))
                   ELSE SetLocals(SymbolPhase(f, cur, frames, symbol, step + 1))

\* the end of the loop, reached when the argument has no further element
FinalFrames(f) ==
    /\ pc = "loop"
    /\ step = Len(input_sequence)
    /\ UNCHANGED <<input_sequence, step>>
    /\ SetLocals(FinalFrame(f, current_states, frames, step))

(***************************************************************************)
(* SpecSim: the automaton is built through the main window's dialogs       *)
(* (FSMMainWindow.add_state, FSMMainWindow.add_transition), then           *)
(* create_animation_frames is called on it                                 *)
(***************************************************************************)
\* FSMMainWindow.add_state: the start question is asked only while no start
\* state is set (answers holds the possible answers); the names are entered
\* in the order of names
EnterState(names, answers) ==
    /\ pc = "idle"
    /\ Len(fsm.names) < Len(names)
    /\ \E is_start \in (IF fsm.start_state = None THEN answers ELSE {FALSE}) :
          fsm' = add_state(fsm, names[Len(fsm.names) + 1], is_start, FALSE).fsm
    /\ UNCHANGED <<last, simIdle>>

\* FSMMainWindow.add_transition: both endpoints come from combo boxes filled
\* with the keys of the state map
EnterTransition(max) ==
    /\ pc = "idle"
    /\ TotalOut(fsm) < max
    /\ \E from_name \in DOMAIN fsm.states, to_name \in DOMAIN fsm.states,
          symbol \in TransSymbols :
          fsm' = add_transition(fsm, from_name, to_name, symbol).fsm
    /\ UNCHANGED <<last, simIdle>>

GuiAddState == EnterState(NameOrder, BOOLEAN)

GuiAddTransition == EnterTransition(MaxTrans)

SimStart ==
    /\ StartFrames(fsm)
    /\ UNCHANGED <<fsm, last, closure_run, returned, journal, player>>

SimStep ==
    /\ Len(input_sequence) < MaxInput
    /\ \E symbol \in InputSymbols : StepFrames(fsm, symbol)
    /\ UNCHANGED <<fsm, last, closure_run, returned, journal, player>>

SimFinal ==
    /\ FinalFrames(fsm)
    /\ UNCHANGED <<fsm, last, closure_run, returned, journal, player>>

NextSim == GuiAddState \/ GuiAddTransition \/ SimStart \/ SimStep \/ SimFinal

SpecSim == Init /\ [][NextSim]_vars

(***************************************************************************)
(* SpecExport: the automaton is built through the dialogs of the main      *)
(* window, then FSMMainWindow.export_animation starts AnimationWorker.run  *)
(* on the store of the main window (the object itself, not a copy) and     *)
(* returns; the worker thread runs create_animation_frames while the main  *)
(* window goes on handling its commands, of which the two removals are     *)
(* modelled. The threads are interleaved between the iterations of the     *)
(* loop of create_animation_frames, which are some of the places where     *)
(* the interpreter can switch threads                                      *)
(***************************************************************************)
\* a command of the main window that changes the store to f while the
\* worker is in its loop
Window(f) ==
    /\ pc = "loop"
    /\ fsm' = f
    /\ UNCHANGED <<last, simIdle>>

\* FSMMainWindow.remove_state on the state selected in the list
WindowRemoveState ==
    \E state_name \in DOMAIN fsm.states : Window(remove_state(fsm, state_name))

\* FSMMainWindow.remove_transition on the transition selected in the list
WindowRemoveTransition ==
    \E n \in DOMAIN fsm.states : \E i \in DOMAIN fsm.states[n].out_transitions :
        LET t == fsm.states[n].out_transitions[i]
        IN  Window(remove_transition(fsm, t.from_state, SymbolDisplay(t.symbol),
                                     t.to_state).fsm)

\* export_animation (the guard of line 1286) and the start of the worker's
\* call of create_animation_frames
ExportAnimation ==
    /\ pc = "idle"
    /\ DOMAIN fsm.states # {}
    /\ StartFrames(fsm)
    /\ UNCHANGED <<fsm, last, closure_run, returned, journal, player>>

\* an iteration of the loop in the worker, on the store as it is now
WorkerStep ==
    /\ Len(input_sequence) < MaxInput
    /\ \E symbol \in TransSymbols : StepFrames(fsm, symbol)
    /\ UNCHANGED <<fsm, last, closure_run, returned, journal, player>>

WorkerFinal ==
    /\ FinalFrames(fsm)
    /\ UNCHANGED <<fsm, last, closure_run, returned, journal, player>>

NextExport ==
    \/ GuiAddState \/ GuiAddTransition
    \/ ExportAnimation \/ WorkerStep \/ WorkerFinal
    \/ WindowRemoveState \/ WindowRemoveTransition

SpecExport == Init /\ [][NextExport]_vars

(***************************************************************************)
(* SpecPlayer: the frame player of the main window.  An automaton is built *)
(* through the dialogs, start_animation computes the frame list of an      *)
(* input sequence and stores it, then the player's buttons and the timer   *)
(* move the frame index                                                    *)
(***************************************************************************)
\* the fields of the main window the player's handlers read and write
PlayerState ==
    [animation_frames |-> animation_frames, current_frame |-> current_frame,
     timer_active |-> timer_active]

SetPlayer(p) ==
    /\ animation_frames' = p.animation_frames
    /\ current_frame' = p.current_frame
    /\ timer_active' = p.timer_active

\* next_animation_frame without the bound on the incremented index
next_animation_frame_NoClamp(p) ==
    IF p.animation_frames = <<>>
    THEN p
    ELSE [p EXCEPT !.current_frame = p.current_frame + 1]

\* FSMMainWindow.next_animation_frame
next_animation_frame(p) ==
    IF p.animation_frames = <<>>
    THEN p
    ELSE IF p.current_frame + 1 >= Len(p.animation_frames)
         THEN [p EXCEPT !.current_frame = Len(p.animation_frames) - 1,
                        !.timer_active = FALSE]
         ELSE [p EXCEPT !.current_frame = p.current_frame + 1]

\* FSMMainWindow.prev_animation_frame
prev_animation_frame(p) ==
    IF p.animation_frames = <<>>
    THEN p
    ELSE IF p.current_frame - 1 < 0
         THEN [p EXCEPT !.current_frame = 0]
         ELSE [p EXCEPT !.current_frame = p.current_frame - 1]

\* FSMMainWindow.toggle_animation
toggle_animation(p) ==
    IF p.timer_active
    THEN [p EXCEPT !.timer_active = FALSE]
    ELSE IF p.current_frame >= Len(p.animation_frames) - 1
         THEN [p EXCEPT !.current_frame = 0, !.timer_active = TRUE]
         ELSE [p EXCEPT !.timer_active = TRUE]

PlayerAddState == EnterState(NameOrder, BOOLEAN)

PlayerAddTransition == EnterTransition(MaxPlayerTrans)

\* start_animation up to the loop of create_animation_frames: the handler
\* returns at once while the automaton has no state
StartAnimation ==
    /\ DOMAIN fsm.states # {}
    /\ StartFrames(fsm)
    /\ UNCHANGED <<fsm, last, closure_run, returned, journal, player>>

\* one element of the sequence entered in the animation dialog
StartAnimationStep ==
    /\ Len(input_sequence) < MaxPlayerInput
    /\ \E symbol \in InputSymbols : StepFrames(fsm, symbol)
    /\ UNCHANGED <<fsm, last, closure_run, returned, journal, player>>

StartAnimationFinal ==
    /\ FinalFrames(fsm)
    /\ UNCHANGED <<fsm, last, closure_run, returned, journal, player>>

\* start_animation after create_animation_frames has returned (lines
\* 1063-1092): the list is stored; an empty list ends the handler, any other
\* puts the index on frame 0, enables the player's buttons and starts the
\* timer when auto_play was ticked in the dialog
StoreFrames ==
    /\ pc = "done"
    /\ IF frames = <<>>
       THEN /\ animation_frames' = frames
            /\ pc' = "refused"
            /\ UNCHANGED <<current_frame, timer_active>>
       ELSE /\ pc' = "playing"
            /\ \E auto_play \in BOOLEAN :
                  SetPlayer([animation_frames |-> frames, current_frame |-> 0,
                             timer_active |-> auto_play])
    /\ UNCHANGED <<fsm, last, input_sequence, step, current_states, frames, closure_run,
                   returned, journal>>

\* a handler of the player, run while its buttons are enabled; last records
\* which handler ran
PlayerHandler(handler, p) ==
    /\ pc = "playing"
    /\ SetPlayer(p)
    /\ last' = Call(handler, <<>>, "none")
    /\ UNCHANGED <<fsm, pc, input_sequence, step, current_states, frames, closure_run,
                   returned, journal>>

\* the button connected to next_animation_frame
NextAnimationFrame ==
    PlayerHandler("next_animation_frame", next_animation_frame(PlayerState))

\* the button connected to prev_animation_frame
PrevAnimationFrame ==
    PlayerHandler("prev_animation_frame", prev_animation_frame(PlayerState))

\* the button connected to toggle_animation
ToggleAnimation ==
    PlayerHandler("toggle_animation", toggle_animation(PlayerState))

\* next_animation_step, the slot of animation_timer.timeout: it runs only
\* while the timer is active
TimerTick ==
    /\ timer_active
    /\ PlayerHandler("next_animation_step", next_animation_frame(PlayerState))

NextPlayer ==
    \/ PlayerAddState \/ PlayerAddTransition
    \/ StartAnimation \/ StartAnimationStep \/ StartAnimationFinal \/ StoreFrames
    \/ NextAnimationFrame \/ PrevAnimationFrame \/ ToggleAnimation \/ TimerTick

SpecPlayer == Init /\ [][NextPlayer]_vars

(***************************************************************************)
(* SpecClosure: an automaton is built through the same dialogs, then       *)
(* _get_epsilon_closure is called on a list of its states (with or         *)
(* without repeated elements, in any order)                                *)
(***************************************************************************)
ClosureAddState == EnterState(ClosureNameOrder, {FALSE})

ClosureAddTransition == EnterTransition(MaxClosureTrans)

CallClosure ==
    /\ pc = "idle"
    /\ \E states \in SeqsUpTo(DOMAIN fsm.states, MaxSeed) :
          LET run == EpsilonClosureRun(fsm, states)
          IN  closure_run' = [states |-> states, closure |-> run.closure,
                              pushed |-> run.pushed, raised |-> run.raised]
    /\ pc' = "called"
    /\ UNCHANGED <<fsm, last, input_sequence, step, current_states, frames, returned, journal,
                   player>>

NextClosure == ClosureAddState \/ ClosureAddTransition \/ CallClosure

SpecClosure == Init /\ [][NextClosure]_vars

(***************************************************************************)
(* SpecClosureTwice: SpecClosure followed by a second call of              *)
(* _get_epsilon_closure, on the set the first call returned                *)
(***************************************************************************)
\* the argument is a Python set: list(states) enumerates it in an order that
\* is not fixed
CallClosureAgain ==
    /\ pc = "called"
    /\ ~closure_run.raised
    /\ \E states \in ListOfSet(closure_run.closure) :
          LET run == EpsilonClosureRun(fsm, states)
          IN  returned' = [op |-> "_get_epsilon_closure",
                           result |-> [states |-> states, closure |-> run.closure,
                                       raised |-> run.raised]]
    /\ pc' = "closed"
    /\ UNCHANGED <<fsm, last, input_sequence, step, current_states, frames, closure_run,
                   journal, player>>

NextClosureTwice == NextClosure \/ CallClosureAgain

SpecClosureTwice == Init /\ [][NextClosureTwice]_vars

(***************************************************************************)
(* SpecReach: an automaton of three states is built through the dialogs of *)
(* the main window, then _get_reachable_states is called on it             *)
(***************************************************************************)
MaxReachTrans == 3    \* transitions added in SpecReach

ReachAddState == EnterState(ClosureNameOrder, BOOLEAN)

ReachAddTransition == EnterTransition(MaxReachTrans)

CallReachable ==
    /\ pc = "idle"
    /\ returned' = [op |-> "_get_reachable_states", result |-> _get_reachable_states(fsm)]
    /\ pc' = "called"
    /\ UNCHANGED <<fsm, last, input_sequence, step, current_states, frames, closure_run,
                   journal, player>>

NextReach == ReachAddState \/ ReachAddTransition \/ CallReachable

SpecReach == Init /\ [][NextReach]_vars

(***************************************************************************)
(* SpecScenario: the automaton of main.py (menu item 6), then a call of    *)
(* create_animation_frames on it                                           *)
(***************************************************************************)
MaxScenarioInput == 3
ScenarioSymbols == {"a", "b", "z", "x"}

\* main.py lines 94-109
ScenarioFsm ==
    LET s0 == add_state(FiniteStateMachine, "q0", TRUE, FALSE).fsm
        s1 == add_state(s0, "q1", FALSE, FALSE).fsm
        s2 == add_state(s1, "q2", FALSE, TRUE).fsm
        t1 == add_transition(s2, "q0", "q1", "a").fsm
        t2 == add_transition(t1, "q0", "q2", EPSILON).fsm
        t3 == add_transition(t2, "q1", "q2", "b").fsm
        t4 == add_transition(t3, "q2", "q0", "a").fsm
    IN  add_transition(t4, "q2", "q1", "z").fsm

InitScenario ==
    /\ fsm = ScenarioFsm
    /\ last = Call("add_transition", <<"q2", "q1", "z">>, "none")
    /\ pc = "idle"
    /\ input_sequence = <<>>
    /\ step = 0
    /\ current_states = {}
    /\ frames = <<>>
    /\ closure_run = [states |-> <<>>, closure |-> {}, pushed |-> <<>>, raised |-> FALSE]
    /\ returned = NoCall
    /\ journal = <<>>
    /\ animation_frames = <<>>
    /\ current_frame = 0
    /\ timer_active = FALSE

ScenarioStep ==
    /\ Len(input_sequence) < MaxScenarioInput
    /\ \E symbol \in ScenarioSymbols : StepFrames(fsm, symbol)
    /\ UNCHANGED <<fsm, last, closure_run, returned, journal, player>>

NextScenario == SimStart \/ ScenarioStep \/ SimFinal

SpecScenario == InitScenario /\ [][NextScenario]_vars

(***************************************************************************)
(* Properties                                                              *)
(***************************************************************************)
OutOf(f, q) == f.states[q].out_transitions

\* C is closed under the epsilon transitions of f
EpsilonClosed(f, C) ==
    \A q \in C : \A i \in DOMAIN OutOf(f, q) :
        OutOf(f, q)[i].symbol = EPSILON => OutOf(f, q)[i].to_state \in C

\* C is the least set of states of f that contains S and is epsilon-closed
IsLeastClosure(f, S, C) ==
    /\ S \subseteq C
    /\ C \subseteq DOMAIN f.states
    /\ EpsilonClosed(f, C)
    /\ \A D \in SUBSET DOMAIN f.states :
          (S \subseteq D /\ EpsilonClosed(f, D)) => C \subseteq D

\* the triples (from, to, symbol) of the transitions labeled symbol that
\* leave a state of A, and how many such transitions there are
FiredSet(f, A, symbol) ==
    UNION {{<<q, OutOf(f, q)[i].to_state, symbol>> :
               i \in {j \in DOMAIN OutOf(f, q) : OutOf(f, q)[j].symbol = symbol}} : q \in A}

RECURSIVE FiredCount(_, _, _)
FiredCount(f, A, symbol) ==
    IF A = {} THEN 0
    ELSE LET q == CHOOSE q \in A : TRUE
         IN  Cardinality({j \in DOMAIN OutOf(f, q) : OutOf(f, q)[j].symbol = symbol})
                 + FiredCount(f, A \ {q}, symbol)

Destinations(triples) == {tr[2] : tr \in triples}

HasStart == DOMAIN fsm.states # {} /\ fsm.start_state # None

Kind(frame) == frame.text[1]
Last(seq) == seq[Len(seq)]
KindsOf(fs) == [i \in DOMAIN fs |-> Kind(fs[i])]

\* a step of the loop consumes the symbol Consumed
Consuming == pc = "loop" /\ Len(input_sequence') = Len(input_sequence) + 1
Consumed == input_sequence'[Len(input_sequence')]

\* the frames the step appends, and those of its symbol phase
IsSymbolPhaseFrame(frame) == Kind(frame) # "epsilon"
NewFrames == SubSeq(frames', Len(frames) + 1, Len(frames'))
SymbolPhaseFrames == SelectSeq(NewFrames, IsSymbolPhaseFrame)
KeepsFrames == Len(frames') >= Len(frames) /\ SubSeq(frames', 1, Len(frames)) = frames

\* C1: whatever list of existing states it is called on, _get_epsilon_closure
\* returns the least set that contains the states of the list and is closed
\* under epsilon transitions, and does not raise
C1_ClosureIsLeast ==
    pc = "called" =>
        /\ ~closure_run.raised
        /\ IsLeastClosure(fsm, Range(closure_run.states), closure_run.closure)

\* C1 witness: a call on one state of an epsilon cycle returned the cycle
C1_Witness ==
    /\ pc = "called"
    /\ \E q \in DOMAIN fsm.states : \E r \in DOMAIN fsm.states :
          /\ q # r
          /\ closure_run.states = <<q>>
          /\ closure_run.closure = {q, r}
          /\ <<q, r, EPSILON>> \in FiredSet(fsm, {q}, EPSILON)
          /\ <<r, q, EPSILON>> \in FiredSet(fsm, {r}, EPSILON)

\* C2: when a transition labeled with the input symbol leaves the active set,
\* the symbol phase appends exactly two frames: the active set with every
\* fired triple, then the new active set with no transition, and the new
\* active set is the epsilon-closure of the destinations of the fired triples
C2_SymbolStepReplaces ==
    [][(Consuming /\ FiredSet(fsm, current_states, Consumed) # {}) =>
          LET fired == FiredSet(fsm, current_states, Consumed)
              sf == SymbolPhaseFrames
          IN  /\ KeepsFrames
              /\ KindsOf(sf) = <<"input", "new_states">>
              /\ sf[1].states = current_states
              /\ Range(sf[1].transitions) = fired
              /\ Len(sf[1].transitions) = FiredCount(fsm, current_states, Consumed)
              /\ sf[2].transitions = <<>>
              /\ sf[2].states = current_states'
              /\ IsLeastClosure(fsm, Destinations(fired), current_states')
              /\ pc' = "loop"]_vars

\* C2 witness: a symbol step has fired and dropped a state of the previous
\* active set
C2_Witness ==
    /\ pc = "loop"
    /\ Len(frames) >= 2
    /\ Kind(frames[Len(frames)]) = "new_states"
    /\ Kind(frames[Len(frames) - 1]) = "input"
    /\ ~(frames[Len(frames) - 1].states \subseteq current_states)

\* C3: when no transition labeled with the input symbol leaves the active
\* set, the symbol phase appends exactly one frame, with no transition, the
\* active set stays what it was before the symbol phase and the loop goes on
C3_DeadEndKeepsActiveSet ==
    [][(Consuming /\ FiredSet(fsm, current_states
                                   \cup Destinations(FiredSet(fsm, current_states, EPSILON)),
                              Consumed) = {}) =>
          LET before == current_states
                            \cup Destinations(FiredSet(fsm, current_states, EPSILON))
              sf == SymbolPhaseFrames
          IN  /\ KeepsFrames
              /\ KindsOf(sf) = <<"no_transition">>
              /\ sf[1].transitions = <<>>
              /\ sf[1].states = before
              /\ current_states' = before
              /\ current_states' # {}
              /\ pc' = "loop"]_vars

\* C3 witness: a dead-end step was followed by a step that fired
C3_Witness ==
    /\ pc = "loop"
    /\ Len(input_sequence) = 2
    /\ \E i \in DOMAIN frames : \E j \in DOMAIN frames :
          /\ i < j
          /\ frames[i].text = <<"no_transition", 1>>
          /\ frames[j].text = <<"input", 2>>
          /\ frames[j].states = frames[i].states

\* C4: the first frame holds {start state} and no transition; a second frame
\* with the epsilon-closure of {start state} and no transition follows iff
\* that closure differs from {start state}; both precede every step
C4_InitialFrames ==
    (pc \in {"loop", "done"} /\ HasStart) =>
        LET start == {fsm.start_state}
            closed == IsLeastClosure(fsm, start, start)
            head == IF closed THEN 1 ELSE 2
        IN  /\ Len(frames) >= head
            /\ frames[1] = Frame(start, <<>>, "initial", 0)
            /\ ~closed => /\ Kind(frames[2]) = "initial_closure"
                          /\ frames[2].transitions = <<>>
                          /\ IsLeastClosure(fsm, start, frames[2].states)
                          /\ frames[2].states # start
            /\ \A i \in DOMAIN frames :
                  i > head => Kind(frames[i]) \notin {"initial", "initial_closure"}
            /\ input_sequence = <<>> /\ pc = "loop" => Len(frames) = head

\* C4 witness: a run with an initial closure frame has consumed a symbol
C4_Witness ==
    /\ pc = "loop" /\ HasStart
    /\ Len(input_sequence) >= 1
    /\ Len(frames) >= 3
    /\ Kind(frames[2]) = "initial_closure"

\* C5: a finished run on an automaton with a start state ends with exactly
\* one final frame, appended after the last step, that holds the terminal
\* active set and no transition
C5_FinalFrame ==
    /\ (pc = "done" /\ HasStart) =>
          /\ Len(frames) >= 2
          /\ Last(frames) = Frame(current_states, <<>>, "result", Len(input_sequence))
          /\ \A i \in DOMAIN frames : Kind(frames[i]) = "result" => i = Len(frames)
    /\ pc = "loop" => \A i \in DOMAIN frames : Kind(frames[i]) # "result"

\* C5 witness: a run on the empty input sequence has finished
C5_Witness ==
    /\ pc = "done" /\ HasStart
    /\ input_sequence = <<>>
    /\ Kind(Last(frames)) = "result"

\* C6: without a start state (or without states) the call returns the empty
\* frame sequence and does not raise
C6_NoStartNoFrames ==
    (pc # "idle" /\ ~HasStart) => (pc = "done" /\ frames = <<>>)

\* C6 witness: the call has returned on an automaton that has states and
\* transitions but no start state
C6_Witness ==
    /\ pc = "done"
    /\ fsm.start_state = None
    /\ DOMAIN fsm.states # {}
    /\ TotalOut(fsm) > 0

\* C7 as stated: every input symbol that is not in the alphabet, the epsilon
\* label included, gives the single no-transition frame and leaves the
\* active set unchanged
C7_Original ==
    [][(Consuming /\ Consumed \notin fsm.alphabet) =>
          /\ KeepsFrames
          /\ KindsOf(SymbolPhaseFrames) = <<"no_transition">>
          /\ SymbolPhaseFrames[1].transitions = <<>>
          /\ current_states' = current_states
          /\ pc' = "loop"]_vars

\* C7 amended: every input symbol that is neither in the alphabet nor the
\* epsilon label gives the single no-transition frame and leaves the active
\* set unchanged
C7_UnknownSymbolDeadEnd ==
    [][(Consuming /\ Consumed \notin fsm.alphabet /\ Consumed # EPSILON) =>
          /\ KeepsFrames
          /\ KindsOf(SymbolPhaseFrames) = <<"no_transition">>
          /\ SymbolPhaseFrames[1].transitions = <<>>
          /\ SymbolPhaseFrames[1].states = current_states
          /\ current_states' = current_states
          /\ pc' = "loop"]_vars

\* C7 witness: a symbol outside a non-empty alphabet was consumed
C7_Witness ==
    /\ pc = "loop"
    /\ fsm.alphabet # {}
    /\ Len(input_sequence) >= 1
    /\ Last(input_sequence) \notin fsm.alphabet \cup {EPSILON}
    /\ Kind(Last(frames)) = "no_transition"

\* C8 as stated (scenario B): after 'a' the active set is {q1}, and 'x' then
\* gives a no-transition frame and leaves the active set {q1}
C8_Original ==
    /\ (pc = "loop" /\ input_sequence = <<"a">>) => current_states = {"q1"}
    /\ (pc = "loop" /\ input_sequence = <<"a", "x">>) =>
          /\ Kind(Last(frames)) = "no_transition"
          /\ current_states = {"q1"}

\* C8 amended (scenario B): after 'a' the active set is {q0, q1, q2}, and 'x'
\* then gives a no-transition frame and leaves the active set {q0, q1, q2}
C8_ScenarioB ==
    /\ (pc = "loop" /\ input_sequence = <<"a">>) => current_states = {"q0", "q1", "q2"}
    /\ (pc = "loop" /\ input_sequence = <<"a", "x">>) =>
          /\ Last(frames) = Frame({"q0", "q1", "q2"}, <<>>, "no_transition", 2)
          /\ current_states = {"q0", "q1", "q2"}

\* C8 witness: the input [a, x] has been consumed
C8_Witness ==
    /\ pc = "loop"
    /\ input_sequence = <<"a", "x">>
    /\ fsm = ScenarioFsm

\* C9 (scenario A): the first frame holds {q0}, the second {q0, q2}, and
\* after [a, b] the terminal active set is {q2}
C9_ScenarioA ==
    /\ pc \in {"loop", "done"} =>
          /\ Len(frames) >= 2
          /\ frames[1].states = {"q0"}
          /\ frames[2].states = {"q0", "q2"}
    /\ (pc \in {"loop", "done"} /\ input_sequence = <<"a", "b">>) =>
          current_states = {"q2"}
    /\ (pc = "done" /\ input_sequence = <<"a", "b">>) => Last(frames).states = {"q2"}

\* C9 witness: the run on [a, b] has finished
C9_Witness ==
    /\ pc = "done"
    /\ input_sequence = <<"a", "b">>
    /\ Len(frames) >= 4

\* C10: a call of add_state, add_transition or set_start_state that raises
\* leaves the store as it was
C10_FailedCallLeavesStore ==
    [][last'.error # "none" => fsm' = fsm]_vars

\* the states whose flag is_start is set
Marked(f) == {n \in DOMAIN f.states : f.states[n].is_start}

\* C11: after a successful set_start_state(name), whatever calls came before,
\* the state called name is the only one with is_start set and the start
\* reference points to it
C11_SetStartStateSingleStart ==
    (last.op = "set_start_state" /\ last.error = "none") =>
        /\ fsm.start_state = last.args[1]
        /\ Marked(fsm) = {last.args[1]}

\* the transitions of ts that do not have name as source or destination
RECURSIVE Others(_, _)
Others(ts, name) ==
    IF ts = <<>> THEN <<>>
    ELSE (IF Head(ts).from_state = name \/ Head(ts).to_state = name
          THEN <<>> ELSE <<Head(ts)>>) \o Others(Tail(ts), name)

\* C12: remove_state(name) of a state of the store takes the name out of the
\* state map, leaves in the lists of every remaining state exactly the
\* transitions that are not incident to name, in their order, and empties
\* the start reference if it pointed to name and keeps it otherwise
C12_RemoveStateCascades ==
    [][(last'.op = "remove_state" /\ Has(fsm, last'.args[1])) =>
          LET name == last'.args[1]
          IN  /\ DOMAIN fsm'.states = DOMAIN fsm.states \ {name}
              /\ Range(fsm'.names) = DOMAIN fsm'.states
              /\ \A n \in DOMAIN fsm'.states :
                    /\ fsm'.states[n].out_transitions =
                           Others(fsm.states[n].out_transitions, name)
                    /\ fsm'.states[n].in_transitions =
                           Others(fsm.states[n].in_transitions, name)
                    /\ \A i \in DOMAIN fsm'.states[n].out_transitions :
                           name \notin {fsm'.states[n].out_transitions[i].from_state,
                                        fsm'.states[n].out_transitions[i].to_state}
                    /\ \A i \in DOMAIN fsm'.states[n].in_transitions :
                           name \notin {fsm'.states[n].in_transitions[i].from_state,
                                        fsm'.states[n].in_transitions[i].to_state}
              /\ fsm'.start_state = IF fsm.start_state = name
                                    THEN None ELSE fsm.start_state]_vars

\* C12 witness: the start state was removed, and a state remains that keeps
\* its self-loop and has lost the transitions it had with the removed state
C12_Witness ==
    /\ last.op = "remove_state"
    /\ ~Has(fsm, last.args[1])
    /\ fsm.start_state = None
    /\ \E n \in DOMAIN fsm.states :
          /\ fsm.states[n].out_transitions = <<Transition(n, n, EPSILON)>>
          /\ fsm.states[n].in_transitions = <<Transition(n, n, EPSILON)>>
          /\ fsm.alphabet = {"a"}

\* ts2 is ts without one occurrence of the transition t
OneRemoved(ts, ts2, t) == \E i \in DOMAIN ts : ts[i] = t /\ ts2 = Pop(ts, i)

\* C13: remove_transition(from, to, symbol) on a store that holds the triple
\* (in the outgoing list of from and in the incoming list of to) removes one
\* occurrence from each of these two lists, keeps every other transition in
\* its place and changes nothing else; when no outgoing list holds the triple
\* the store is unchanged and the outcome is the not-found one
C13_RemoveTransitionOnce ==
    [][last'.op = "remove_transition" =>
          LET from == last'.args[1]
              to == last'.args[2]
              t == Transition(from, to, last'.args[3])
              held == /\ Has(fsm, from) /\ Has(fsm, to)
                      /\ t \in Range(fsm.states[from].out_transitions)
                      /\ t \in Range(fsm.states[to].in_transitions)
              absent == \A n \in DOMAIN fsm.states :
                            t \notin Range(fsm.states[n].out_transitions)
          IN  /\ held =>
                    /\ last'.error = "none"
                    /\ fsm'.names = fsm.names
                    /\ fsm'.alphabet = fsm.alphabet
                    /\ fsm'.start_state = fsm.start_state
                    /\ DOMAIN fsm'.states = DOMAIN fsm.states
                    /\ \A n \in DOMAIN fsm.states :
                          LET old == fsm.states[n]
                              new == fsm'.states[n]
                          IN  /\ new.name = old.name
                              /\ new.is_start = old.is_start
                              /\ new.is_final = old.is_final
                              /\ IF n = from
                                 THEN OneRemoved(old.out_transitions, new.out_transitions, t)
                                 ELSE new.out_transitions = old.out_transitions
                              /\ IF n = to
                                 THEN OneRemoved(old.in_transitions, new.in_transitions, t)
                                 ELSE new.in_transitions = old.in_transitions
              /\ absent => (fsm' = fsm /\ last'.error = "not_found")]_vars

\* C13 witness: one of two equal transitions was removed, the other is still
\* in both lists
C13_Witness ==
    /\ last.op = "remove_transition"
    /\ last.error = "none"
    /\ LET t == Transition(last.args[1], last.args[2], last.args[3])
       IN  /\ Has(fsm, last.args[1]) /\ Has(fsm, last.args[2])
           /\ t \in Range(fsm.states[last.args[1]].out_transitions)
           /\ t \in Range(fsm.states[last.args[2]].in_transitions)

\* C14: once every add_state and add_transition call made on the empty
\* store has been undone by its inverse call, transitions first and in
\* reverse order, the store has no state, hence no transition, and no start
\* reference; no inverse call fails on the way
C14_RoundTrip ==
    /\ pc = "undo" => last.error = "none"
    /\ (pc = "undo" /\ journal = <<>>) =>
          /\ fsm.names = FiniteStateMachine.names
          /\ fsm.states = FiniteStateMachine.states
          /\ fsm.start_state = FiniteStateMachine.start_state

\* C14 witness: everything is undone, the state q1 last, and a transition
\* labeled a was among the transitions added and removed
C14_Witness ==
    /\ pc = "undo"
    /\ journal = <<>>
    /\ last = Call("remove_state", <<"q1">>, "none")
    /\ fsm.alphabet = {"a"}

\* the transitions of f from the state called from to the state called to
Edges(f, from, to) ==
    {i \in DOMAIN OutOf(f, from) : OutOf(f, from)[i].to_state = to}

\* the destinations of the transitions of ts labeled symbol, in their order
DestinationsOf(ts, symbol) ==
    LET labeled == SelectSeq(ts, LAMBDA t : t.symbol = symbol)
    IN  [i \in DOMAIN labeled |-> labeled[i].to_state]

\* every transition of f ends in a state of f
NoDangling(f) ==
    \A n \in DOMAIN f.states : \A i \in DOMAIN OutOf(f, n) :
        Has(f, OutOf(f, n)[i].to_state)

\* C15: on every store the calls reach, get_adjacency_matrix completes,
\* returns the names in insertion order and a square matrix of 0 and 1 whose
\* entry [i][j] is 1 iff a transition goes from state i to state j, that is
\* iff get_transitions_by_symbol of state i yields state j for some symbol
C15_AdjacencyMatrix ==
    returned.op = "get_adjacency_matrix" =>
        LET r == returned.result
            n == Len(fsm.names)
        IN  /\ r.raised = "none"
            /\ r.state_names = fsm.names
            /\ DOMAIN r.matrix = 1..n
            /\ \A i \in 1..n :
                  /\ DOMAIN r.matrix[i] = 1..n
                  /\ \A j \in 1..n :
                        /\ r.matrix[i][j] \in {0, 1}
                        /\ r.matrix[i][j] = 1 <=> Edges(fsm, fsm.names[i], fsm.names[j]) # {}
                        /\ r.matrix[i][j] = 1 <=>
                               \E symbol \in TransSymbols :
                                   fsm.names[j] \in
                                       Range(get_transitions_by_symbol(
                                                 OutOf(fsm, fsm.names[i]), symbol))

\* the string x comes before the string y
Before(x, y) ==
    \E i \in DOMAIN Collation : \E j \in DOMAIN Collation :
        Collation[i] = x /\ Collation[j] = y /\ i < j

\* an epsilon transition leaves some state of f
HasEpsilon(f) ==
    \E n \in DOMAIN f.states : \E i \in DOMAIN OutOf(f, n) : OutOf(f, n)[i].symbol = EPSILON

\* C16: the symbol list of get_transition_table is the alphabet in ascending
\* order, after the epsilon label iff an epsilon transition exists; the table
\* has for every state and every symbol of the list the destinations of the
\* transitions of that state with that symbol, in insertion order (the
\* empty list if there is none)
C16_TransitionTable ==
    returned.op = "get_transition_table" =>
        LET symbols == returned.result.sorted_alphabet
            table == returned.result.table
            letters == IF HasEpsilon(fsm) THEN Tail(symbols) ELSE symbols
        IN  /\ symbols # <<>> /\ symbols[1] = EPSILON <=> HasEpsilon(fsm)
            /\ Range(letters) = fsm.alphabet
            /\ \A i \in DOMAIN letters : \A j \in DOMAIN letters :
                  i < j => Before(letters[i], letters[j])
            /\ DOMAIN table = DOMAIN fsm.states
            /\ \A n \in DOMAIN fsm.states :
                  /\ DOMAIN table[n] = Range(symbols)
                  /\ \A symbol \in Range(symbols) :
                        /\ table[n][symbol] = DestinationsOf(OutOf(fsm, n), symbol)
                        /\ table[n][symbol] =
                               get_transitions_by_symbol(OutOf(fsm, n), symbol)

\* C16 witness: a table with the symbols epsilon, a, b in which a state has
\* two destinations for one symbol and none for another
C16_Witness ==
    /\ returned.op = "get_transition_table"
    /\ returned.result.sorted_alphabet = <<EPSILON, "a", "b">>
    /\ \E n \in DOMAIN fsm.states :
          /\ Len(returned.result.table[n]["b"]) = 2
          /\ returned.result.table[n]["a"] = <<>>

\* the states of f on a path of transitions, of any label, from a state of S
RECURSIVE ReachableFrom(_, _)
ReachableFrom(f, S) ==
    LET next == UNION {{OutOf(f, n)[i].to_state : i \in DOMAIN OutOf(f, n)} :
                           n \in S \cap DOMAIN f.states}
    IN  IF next \subseteq S THEN S ELSE ReachableFrom(f, S \cup next)

\* the state of f called n has neither incoming nor outgoing transitions
Isolated(f, n) == f.states[n].in_transitions = <<>> /\ f.states[n].out_transitions = <<>>

\* C17: validate always returns; is_valid is true iff no message is an error,
\* that is iff the automaton has a state and a start state, whatever the
\* warnings; one isolated state and no start state give is_valid false, the
\* no-start-state error and the isolated warning
C17_ValidateReport ==
    returned.op = "validate" =>
        LET r == returned.result
        IN  /\ r.raised = "none"
            /\ r.is_valid <=> \A i \in DOMAIN r.messages : ~IsError(r.messages[i])
            /\ r.is_valid <=> (DOMAIN fsm.states # {} /\ fsm.start_state # None)
            /\ (Len(fsm.names) = 1 /\ fsm.start_state = None /\ Isolated(fsm, fsm.names[1])) =>
                  /\ ~r.is_valid
                  /\ Message("no_start_state", None) \in Range(r.messages)
                  /\ Message("isolated", fsm.names[1]) \in Range(r.messages)

\* the warning expected for the state called n
WarningOf(f, n) ==
    IF Isolated(f, n) THEN "isolated"
    ELSE IF f.states[n].out_transitions = <<>> /\ ~f.states[n].is_final THEN "dead_end"
         ELSE "none"

\* C18: the list validate returns is: the no-states error if there is no
\* state, the no-start-state error if there is no start state, then for the
\* states in insertion order their isolated or dead-end warning if they have
\* one, then one unreachable warning for each state out of the reachable set
\* if there is a start state; hence every error precedes every warning
C18_ValidateMessages ==
    (returned.op = "validate" /\ returned.result.raised = "none") =>
        LET m == returned.result.messages
            errors == (IF DOMAIN fsm.states = {} THEN <<Message("no_states", None)>> ELSE <<>>)
                          \o (IF fsm.start_state = None
                              THEN <<Message("no_start_state", None)>> ELSE <<>>)
            warned == SelectSeq(fsm.names, LAMBDA n : WarningOf(fsm, n) # "none")
            warnings == [i \in DOMAIN warned |-> Message(WarningOf(fsm, warned[i]), warned[i])]
            unreachable == IF fsm.start_state = None THEN {}
                           ELSE DOMAIN fsm.states \ ReachableFrom(fsm, {fsm.start_state})
            k == Len(errors) + Len(warnings)
        IN  /\ Len(m) = k + Cardinality(unreachable)
            /\ SubSeq(m, 1, k) = errors \o warnings
            /\ {m[i] : i \in (k + 1)..Len(m)} =
                   {Message("unreachable", n) : n \in unreachable}
            /\ \A i \in DOMAIN m : \A j \in DOMAIN m :
                  (i < j /\ IsError(m[j])) => IsError(m[i])

\* C18 witness: a report with the isolated warning of the first state and
\* its unreachable warning, and no warning for the second state, the start
\* state, which is final
C18_Witness ==
    /\ returned.op = "validate"
    /\ returned.result.raised = "none"
    /\ Len(fsm.names) = 2
    /\ fsm.start_state = fsm.names[2]
    /\ fsm.states[fsm.names[2]].is_final
    /\ returned.result.messages = <<Message("isolated", fsm.names[1]),
                                    Message("unreachable", fsm.names[1])>>

\* C19: _get_reachable_states returns the empty set when no start state is
\* set, and otherwise the states on the paths of transitions of any label
\* that leave the start state, the start state among them, and no other
C19_ReachableStates ==
    (pc = "called" /\ returned.op = "_get_reachable_states") =>
        LET r == returned.result
        IN  /\ r.raised = "none"
            /\ fsm.start_state = None => r.value = {}
            /\ fsm.start_state # None =>
                  /\ fsm.start_state \in r.value
                  /\ r.value \subseteq DOMAIN fsm.states
                  /\ r.value = ReachableFrom(fsm, {fsm.start_state})

\* C19 witness: the call returned two of three states on a graph with a
\* cycle through the start state, closed by an epsilon transition
C19_Witness ==
    /\ pc = "called" /\ returned.op = "_get_reachable_states"
    /\ Len(fsm.names) = 3
    /\ Cardinality(returned.result.value) = 2
    /\ \E n \in returned.result.value :
          /\ n # fsm.start_state
          /\ Transition(n, fsm.start_state, EPSILON) \in Range(OutOf(fsm, n))
          /\ Edges(fsm, fsm.start_state, n) # {}

\* C20: _get_epsilon_closure is idempotent: called on the set that a call on
\* a list of existing states returned, it returns that same set (and does not
\* raise), whatever order the set is enumerated in
C20_ClosureIdempotent ==
    pc = "closed" =>
        /\ Range(returned.result.states) = closure_run.closure
        /\ ~returned.result.raised
        /\ returned.result.closure = closure_run.closure

\* C20 witness: the first call on one end of an epsilon chain of three states
\* returned all three, and the second call was made on them with the seed last
C20_Witness ==
    /\ pc = "closed"
    /\ Len(closure_run.states) = 1
    /\ Cardinality(closure_run.closure) = 3
    /\ returned.op = "_get_epsilon_closure"
    /\ returned.result.states[3] = closure_run.states[1]
    /\ returned.result.closure = closure_run.closure

\* C21: the alphabet never holds the epsilon label; a successful
\* add_transition with another symbol leaves that symbol in the alphabet, and
\* an add_transition with the epsilon label leaves the alphabet as it was
C21_AlphabetOnAdd ==
    /\ [](EPSILON \notin fsm.alphabet)
    /\ [][last'.op = "add_transition" =>
             LET symbol == last'.args[3]
             IN  /\ (last'.error = "none" /\ symbol # EPSILON) =>
                        fsm'.alphabet = fsm.alphabet \cup {symbol}
                 /\ symbol = EPSILON => fsm'.alphabet = fsm.alphabet]_vars

\* C21 witness: an epsilon transition was added to a store whose alphabet
\* holds a symbol, after a removal
C21_Witness ==
    /\ last = Call("add_transition", <<"q0", "q1", EPSILON>>, "none")
    /\ fsm.alphabet = {"a"}
    /\ TotalOut(fsm) = 1

\* the symbols other than epsilon on the transitions the lists of f hold
Labels(f) ==
    UNION {{f.states[n].out_transitions[i].symbol : i \in DOMAIN f.states[n].out_transitions}
               \cup {f.states[n].in_transitions[i].symbol :
                         i \in DOMAIN f.states[n].in_transitions} :
           n \in DOMAIN f.states} \ {EPSILON}

\* C22: whatever successful additions and removals were made, the alphabet
\* is the set of the symbols other than epsilon that label a transition of
\* the automaton
C22_AlphabetExact ==
    fsm.alphabet = Labels(fsm)

\* C23: no step of a run of create_animation_frames, the calls of
\* _get_epsilon_closure it makes included, changes the store (state map,
\* flags, transition lists, alphabet, start reference), and every step keeps
\* the frames emitted before it as they are
C23_SimulationIsPure ==
    [][pc' # "idle" => (fsm' = fsm /\ KeepsFrames)]_vars

\* C23 witness: a run that fired transitions on both of its symbols has
\* returned, on a store with two transitions
C23_Witness ==
    /\ pc = "done"
    /\ Len(input_sequence) = 2
    /\ TotalOut(fsm) = 2
    /\ \E i \in DOMAIN frames : frames[i].text = <<"input", 1>>
    /\ \E i \in DOMAIN frames : frames[i].text = <<"input", 2>>

\* C24: between the start and the end of a run of create_animation_frames,
\* the run in the worker of export_animation included, no command of the
\* main window changes the store
C24_NoMutationDuringRun ==
    [][pc = "loop" => fsm' = fsm]_vars

\* C25: in the processing of an input symbol an epsilon frame is emitted iff
\* an epsilon transition leaves the active set; it is the first frame of the
\* step, before the frames of the symbol phase, holds the active set as it
\* was and exactly the epsilon transitions that leave it, and the symbol
\* phase then starts from the union of the active set and their destinations
C25_PreStepEpsilonFrame ==
    [][Consuming =>
          LET eps == FiredSet(fsm, current_states, EPSILON)
              nf == NewFrames
              sf == SymbolPhaseFrames
          IN  /\ KeepsFrames
              /\ nf # <<>>
              /\ Kind(nf[1]) = "epsilon" <=> eps # {}
              /\ \A i \in DOMAIN nf : Kind(nf[i]) = "epsilon" => i = 1
              /\ eps # {} =>
                    /\ nf[1].states = current_states
                    /\ Range(nf[1].transitions) = eps
                    /\ Len(nf[1].transitions) = FiredCount(fsm, current_states, EPSILON)
                    /\ sf = Tail(nf)
              /\ sf # <<>>
              /\ sf[1].states = current_states \cup Destinations(eps)
              /\ current_states \subseteq sf[1].states]_vars

\* C25 witness: an epsilon frame with two active states is followed by the
\* frame of a symbol that fired
C25_Witness ==
    /\ pc = "loop"
    /\ \E i \in DOMAIN frames :
          /\ i < Len(frames)
          /\ Kind(frames[i]) = "epsilon"
          /\ Cardinality(frames[i].states) = 2
          /\ Kind(frames[i + 1]) = "input"

\* how many times x is in the list seq
Occurrences(seq, x) == Cardinality({i \in DOMAIN seq : seq[i] = x})

\* the list states is one that a symbol phase passes to _get_epsilon_closure
\* (line 379): the destinations of the transitions with some symbol that
\* leave an epsilon-closed set of states, in the order the loops meet them
SymbolPhaseSeed(f, states) ==
    /\ states # <<>>
    /\ \E A \in SUBSET DOMAIN f.states :
          /\ A # {} /\ EpsilonClosed(f, A)
          /\ \E cur \in ListOfSet(A), symbol \in TransSymbols :
                 states = ToStates(CollectTransitions(f, cur, 1, symbol))

\* C26 as stated: a closure computation on a seed of the simulator ends
\* without an exception and puts no state on its worklist more than once,
\* also when several fired transitions lead to the same state
C26_Original ==
    (pc = "called" /\ SymbolPhaseSeed(fsm, closure_run.states)) =>
        /\ ~closure_run.raised
        /\ \A n \in DOMAIN fsm.states : Occurrences(closure_run.pushed, n) <= 1

\* C26 amended: a closure computation ends without an exception; a state of
\* the seed is put on the worklist as many times as the seed list holds it
\* and never by the traversal, and any other state is put on it once if it
\* is in the closure and never otherwise
C26_WorklistPushes ==
    pc = "called" =>
        /\ ~closure_run.raised
        /\ \A n \in DOMAIN fsm.states :
              Occurrences(closure_run.pushed, n) =
                  IF n \in Range(closure_run.states)
                  THEN Occurrences(closure_run.states, n)
                  ELSE IF n \in closure_run.closure THEN 1 ELSE 0

\* C26 witness: the call was made on the destinations of two fired
\* transitions that lead to the same state, which is on the worklist twice
C26_Witness ==
    /\ pc = "called"
    /\ SymbolPhaseSeed(fsm, closure_run.states)
    /\ Len(closure_run.states) = 2
    /\ closure_run.states[1] = closure_run.states[2]
    /\ Occurrences(closure_run.pushed, closure_run.states[1]) = 2

\* the transitions held by some list of some state of f
Recorded(f) ==
    UNION {Range(f.states[n].out_transitions) \cup Range(f.states[n].in_transitions) :
           n \in DOMAIN f.states}

\* C27: after any calls of add_state, add_transition, remove_transition and
\* remove_state, failed ones included, every transition in a list of a state
\* has its source and its destination in the state map, and is as many times
\* in the outgoing list of its source as in the incoming list of its
\* destination
C27_ReferentialIntegrity ==
    \A t \in Recorded(fsm) :
        /\ Has(fsm, t.from_state)
        /\ Has(fsm, t.to_state)
        /\ Occurrences(fsm.states[t.from_state].out_transitions, t) =
               Occurrences(fsm.states[t.to_state].in_transitions, t)

\* C28: in a run on an automaton with a start state, every frame emitted
\* holds at least one state, and so does the active set at every point of
\* the run
C28_FramesNonEmpty ==
    (pc \in {"loop", "done"} /\ HasStart) =>
        /\ frames # <<>>
        /\ \A i \in DOMAIN frames : frames[i].states # {}
        /\ current_states # {}

\* C28 witness: a run has returned whose two symbols both found no
\* transition
C28_Witness ==
    /\ pc = "done" /\ HasStart
    /\ Len(input_sequence) = 2
    /\ TotalOut(fsm) > 0
    /\ \E i \in DOMAIN frames : frames[i].text = <<"no_transition", 1>>
    /\ \E i \in DOMAIN frames : frames[i].text = <<"no_transition", 2>>

\* C29: whenever the loop is about to process an input symbol, the active
\* set is closed under the epsilon transitions, so that the epsilon phase
\* before the symbol adds no state: the symbol phase starts from the active
\* set as it was, whatever epsilon transitions were reported
C29_ActiveSetIsClosed ==
    /\ [](pc = "loop" => IsLeastClosure(fsm, current_states, current_states))
    /\ [][Consuming =>
             /\ current_states \cup Destinations(FiredSet(fsm, current_states, EPSILON))
                    = current_states
             /\ SymbolPhaseFrames # <<>>
             /\ SymbolPhaseFrames[1].states = current_states]_vars

\* C29 witness: an epsilon frame reports a transition between two different
\* states and the frame after it holds the same states
C29_Witness ==
    /\ pc = "loop"
    /\ \E i \in DOMAIN frames :
          /\ i < Len(frames)
          /\ Kind(frames[i]) = "epsilon"
          /\ \E k \in DOMAIN frames[i].transitions :
                 frames[i].transitions[k][1] # frames[i].transitions[k][2]
          /\ Kind(frames[i + 1]) = "no_transition"
          /\ frames[i + 1].states = frames[i].states

\* C30: once start_animation has stored a non-empty frame list, the handlers
\* of the player keep 0 <= current_frame <= len(animation_frames) - 1; a
\* forward step (the button or a timer tick) taken on the last frame leaves
\* the index on the last frame and stops the timer, and a backward step taken
\* on frame 0 leaves the index at 0
OnLastFrame == current_frame = Len(animation_frames) - 1

C30_FrameIndexInBounds ==
    /\ [](pc = "playing" =>
            /\ animation_frames # <<>>
            /\ 0 <= current_frame
            /\ current_frame <= Len(animation_frames) - 1)
    /\ [][/\ (NextAnimationFrame \/ TimerTick) /\ OnLastFrame
             => OnLastFrame' /\ ~timer_active'
          /\ PrevAnimationFrame /\ current_frame = 0
             => current_frame' = 0]_vars

\* the player stands on the last frame of a list of more than two frames
\* with the timer running: the next tick is a forward step on the last frame
C30_Witness ==
    /\ pc = "playing"
    /\ Len(animation_frames) > 2
    /\ OnLastFrame
    /\ timer_active

====
